---- MODULE Spec2Model ----
(***************************************************************************)
(* InsightPrep diagnostic scripts: check_db.py, check_leadership_db.py,    *)
(* debug_question.py and search_question.py.  Each script is a straight    *)
(* line module body that connects to a SQLite question bank, runs a fixed  *)
(* list of SELECT statements and prints what it fetched.  A run of one     *)
(* script is one behaviour: `script' names the script, `pc' its position   *)
(* in the module body, `db' the bank file, `out' the lines printed to      *)
(* standard output and `queries' the statements handed to cursor.execute   *)
(* together with the way each one ended.                                   *)
(***************************************************************************)
EXTENDS Integers, Sequences, FiniteSets, TLC

VARIABLES script, pc, db, conn, out, queries, status, exc,
          tables, types, counts, topics, subtopics, samples, i,
          question, options, matches, questions

vars ==
    <<script, pc, db, conn, out, queries, status, exc,
      tables, types, counts, topics, subtopics, samples, i,
      question, options, matches, questions>>

locals ==
    <<tables, types, counts, topics, subtopics, samples, i,
      question, options, matches, questions>>

(***************************************************************************)
(* Bounds of the explored banks.                                           *)
(***************************************************************************)
MaxQuestions ==
    4

MaxOptions ==
    3

MaxPairs ==
    2

(***************************************************************************)
(* Program constants.                                                      *)
(***************************************************************************)
SampleLimit ==
    3

PreviewCap ==
    100

DebugQuestionId ==
    1

ReportScripts ==
    {"check_db", "check_leadership_db"}

Scripts ==
    ReportScripts \cup {"debug_question", "search_question"}

Pattern1 ==
    <<"p", "r", "o", "f", "e", "s", "s", "i", "o", "n", "a", "l", " ", "l", "e", "a", "r", "n", "i", "n", "g", " ", "c", "o", "m", "m", "u", "n", "i", "t", "i", "e", "s">>

Pattern2 ==
    <<"s", "t", "r", "e", "n", "g", "t", "h", "e", "n", "s", " ", "p", "r", "o", "f", "e", "s", "s", "i", "o", "n", "a", "l">>

(***************************************************************************)
(* Values stored in the bank.  None is SQL NULL / Python None for scalar   *)
(* columns; NullText is NULL in the question_text column.  A text is a     *)
(* tuple of one-character strings, so NullText is no text.                 *)
(***************************************************************************)
None ==
    "None"

NullText ==
    <<"None">>

TextLeadership ==
    <<"W", "h", "a", "t", " ", "i", "s", " ", "l", "e", "a", "d", "e", "r", "s", "h", "i", "p", "?">>

TextPLC ==
    <<"B", "u", "i", "l", "d", " ", "P", "R", "O", "F", "E", "S", "S", "I", "O", "N", "A", "L", " ", "L", "e", "a", "r", "n", "i", "n", "g", " ", "C", "o", "m", "m", "u", "n", "i", "t", "i", "e", "s">>

TextStrengthens ==
    <<"I", "t", " ", "s", "t", "r", "e", "n", "g", "t", "h", "e", "n", "s", " ", "p", "r", "o", "f", "e", "s", "s", "i", "o", "n", "a", "l", " ", "t", "r", "u", "s", "t">>

TextAtCap ==
    [k \in 1..PreviewCap |-> "y"]

TextLong ==
    [k \in 1..(PreviewCap + 1) |-> IF k = PreviewCap + 1 THEN "z" ELSE "x"]

Texts ==
    {NullText, TextLeadership, TextPLC, TextLong}

QuestionTypes ==
    {None, "MCQ", "Match"}

Subtopics ==
    {None, "Traits", "Teams"}

(* BINARY collation of the type names, NULL first: 'C' (67) < 'a' (97). *)
TypeOrder ==
    <<None, "MCQ", "Match">>

AllTables ==
    <<"questions", "options", "match_pairs">>

TableLists ==
    { AllTables, <<>>, <<"questions">>, <<"questions", "options">>,
      <<"questions", "match_pairs">>, <<"options", "match_pairs">> }

Min(a, b) ==
    IF a < b THEN a ELSE b

Range(s) ==
    {s[k] : k \in 1..Len(s)}

Pick(s, k) ==
    s[((k - 1) % Len(s)) + 1]

(***************************************************************************)
(* The banks a run is started on.                                          *)
(***************************************************************************)
DefaultTypes ==
    <<"MCQ", "Match", "MCQ", None>>

DefaultTopics ==
    <<"Leadership", "Leadership", "Culture">>

DefaultSubtopics ==
    <<"Traits", None, "Traits", "Teams">>

DefaultTexts ==
    <<TextLeadership, TextStrengthens, TextAtCap, TextLong>>

OptionTexts ==
    <<"Trait-based", "Situational", "Servant", "Shared", "Adaptive">>

PairTexts ==
    <<"Vision", "Mission", "Values", "Goals">>

DefaultRow(k, base) ==
    [ id            |-> base + k,
      question_type |-> Pick(DefaultTypes, k),
      topic         |-> Pick(DefaultTopics, k),
      subtopic      |-> Pick(DefaultSubtopics, k),
      question_text |-> Pick(DefaultTexts, k) ]

DefaultQuestions(n, base) ==
    [k \in 1..n |-> DefaultRow(k, base)]

DefaultOptions ==
    { [id |-> 1, question_id |-> 1, option_text |-> "Trait-based", is_correct |-> 0],
      [id |-> 2, question_id |-> 1, option_text |-> "Situational", is_correct |-> 1],
      [id |-> 3, question_id |-> 3, option_text |-> "Servant", is_correct |-> 1] }

DefaultPairs ==
    << [question_id |-> 2, left_text |-> "Vision", right_text |-> "Direction"] >>

Bank(tl, sub, qs, os, ps) ==
    [ exists      |-> TRUE,
      tables      |-> tl,
      hasSubtopic |-> sub,
      questions   |-> IF "questions" \in Range(tl) THEN qs ELSE <<>>,
      options     |-> IF "options" \in Range(tl) THEN os ELSE {},
      match_pairs |-> IF "match_pairs" \in Range(tl) THEN ps ELSE <<>> ]

NoBank ==
    [ exists |-> FALSE, tables |-> <<>>, hasSubtopic |-> FALSE,
      questions |-> <<>>, options |-> {}, match_pairs |-> <<>> ]

SchemaBanks ==
    { Bank(tl, sub, DefaultQuestions(3, 0), DefaultOptions, DefaultPairs) :
        tl \in TableLists, sub \in BOOLEAN }

TypeBanks ==
    UNION { { Bank(AllTables, base = 0,
                   [k \in 1..n |-> [DefaultRow(k, base) EXCEPT !.question_type = f[k]]],
                   DefaultOptions, DefaultPairs) :
                f \in [1..n -> QuestionTypes], base \in {0, 1} } :
            n \in 0..MaxQuestions }

SubtopicBanks ==
    UNION { { Bank(AllTables, TRUE,
                   [k \in 1..n |-> [DefaultRow(k, 0) EXCEPT !.subtopic = f[k]]],
                   DefaultOptions, DefaultPairs) :
                f \in [1..n -> Subtopics] } :
            n \in 0..MaxQuestions }

TextBanks ==
    UNION { { Bank(AllTables, TRUE,
                   [k \in 1..n |-> [DefaultRow(k, 0) EXCEPT !.question_text = f[k]]],
                   DefaultOptions, DefaultPairs) :
                f \in [1..n -> Texts] } :
            n \in 0..MaxQuestions }

OptionChoices ==
    {<<0, 0>>} \cup ({1, 2} \X {0, 1})

OptionTables ==
    { { [id |-> k, question_id |-> f[k][1], option_text |-> Pick(OptionTexts, k),
         is_correct |-> f[k][2]] : k \in {j \in 1..MaxOptions : f[j][1] # 0} } :
        f \in [1..MaxOptions -> OptionChoices] }

PairTables ==
    UNION { { [k \in 1..n |-> [question_id |-> f[k], left_text |-> Pick(PairTexts, k),
                               right_text |-> Pick(PairTexts, k + 1)]] :
                f \in [1..n -> {1, 2}] } :
            n \in 0..MaxPairs }

ChildBanks ==
    { Bank(AllTables, FALSE, DefaultQuestions(3, 0), os, DefaultPairs) : os \in OptionTables }
        \cup { Bank(AllTables, FALSE, DefaultQuestions(3, 0), DefaultOptions, ps) :
                    ps \in PairTables }

Banks ==
    {NoBank} \cup SchemaBanks \cup TypeBanks \cup SubtopicBanks \cup TextBanks \cup ChildBanks

(***************************************************************************)
(* The SELECT statements, as SQLite evaluates them on the bank.            *)
(***************************************************************************)
Faults ==
    {"ok", "disk I/O error", "database disk image is malformed"}

(* How cursor.execute ends: a storage fault f, or a name the schema lacks. *)
QueryError(d, q, tbl, f) ==
    IF f # "ok" THEN f
    ELSE IF tbl # "sqlite_master" /\ tbl \notin Range(d.tables) THEN "no such table"
    ELSE IF q = "subtopics" /\ ~d.hasSubtopic THEN "no such column"
    ELSE "ok"

(* The sqlite3 exception class of an error message. *)
ExcClass(err) ==
    IF err = "database disk image is malformed" THEN "DatabaseError" ELSE "OperationalError"

(* SELECT sql FROM sqlite_master WHERE type='table' *)
SchemaRows(d) ==
    [k \in 1..Len(d.tables) |-> [create |-> d.tables[k]]]

RECURSIVE DistinctFrom(_, _)
DistinctFrom(s, seen) ==
    IF s = <<>> THEN <<>>
    ELSE IF Head(s) \in seen THEN DistinctFrom(Tail(s), seen)
    ELSE <<Head(s)>> \o DistinctFrom(Tail(s), seen \cup {Head(s)})

(* SELECT DISTINCT col FROM questions *)
Distinct(d, col) ==
    DistinctFrom([k \in 1..Len(d.questions) |-> d.questions[k][col]], {})

CountOf(d, t) ==
    Cardinality({k \in 1..Len(d.questions) : d.questions[k].question_type = t})

(* Variant: COUNT(question_type), which does not count NULL. *)
GroupCountNonNull(d) ==
    LET Present(t) == CountOf(d, t) > 0
        keys == SelectSeq(TypeOrder, Present)
    IN  [k \in 1..Len(keys) |->
            <<keys[k], IF keys[k] = None THEN 0 ELSE CountOf(d, keys[k])>>]

(* SELECT question_type, COUNT( * ) FROM questions GROUP BY question_type *)
GroupCount(d) ==
    LET Present(t) == CountOf(d, t) > 0
        keys == SelectSeq(TypeOrder, Present)
    IN  [k \in 1..Len(keys) |-> <<keys[k], CountOf(d, keys[k])>>]

(* SELECT id, question_type, question_text FROM questions LIMIT 3 *)
SampleRows(d) ==
    [k \in 1..Min(Len(d.questions), SampleLimit) |->
        <<d.questions[k].id, d.questions[k].question_type, d.questions[k].question_text>>]

(* qtext[:100] *)
Preview(qtext) ==
    SubSeq(qtext, 1, Min(Len(qtext), PreviewCap))

RECURSIVE SortById(_)
SortById(S) ==
    IF S = {} THEN <<>>
    ELSE LET m == CHOOSE o \in S : \A p \in S : o.id <= p.id
         IN  <<m>> \o SortById(S \ {m})

(* Variant: the WHERE clause is missing. *)
OptionsOfAnyQuestion(d, qid) ==
    LET rows == SortById(d.options)
    IN  [k \in 1..Len(rows) |-> <<rows[k].option_text, rows[k].is_correct>>]

(* SELECT option_text, is_correct FROM options WHERE question_id = ? ORDER BY id *)
OptionsFor(d, qid) ==
    LET rows == SortById({o \in d.options : o.question_id = qid})
    IN  [k \in 1..Len(rows) |-> <<rows[k].option_text, rows[k].is_correct>>]

(* SELECT left_text, right_text FROM match_pairs WHERE question_id = ? *)
MatchPairsFor(d, qid) ==
    LET Mine(r) == r.question_id = qid
        rows == SelectSeq(d.match_pairs, Mine)
    IN  [k \in 1..Len(rows) |-> <<rows[k].left_text, rows[k].right_text>>]

Upper ==
    <<"A", "B", "C", "D", "E", "F", "G", "H", "I", "J", "K", "L", "M", "N", "O", "P", "Q", "R", "S", "T", "U", "V", "W", "X", "Y", "Z">>

Lower ==
    <<"a", "b", "c", "d", "e", "f", "g", "h", "i", "j", "k", "l", "m", "n", "o", "p", "q", "r", "s", "t", "u", "v", "w", "x", "y", "z">>

(* LIKE compares ASCII letters without regard to case. *)
FoldTable ==
    [c \in Range(Upper) |-> Lower[CHOOSE k \in 1..Len(Upper) : Upper[k] = c]]

Fold(c) ==
    IF c \in DOMAIN FoldTable THEN FoldTable[c] ELSE c

(* Variant: a case-sensitive match, as GLOB or instr would give. *)
LikeCaseSensitive(text, pat) ==
    /\ text # NullText
    /\ \E s \in 0..(Len(text) - Len(pat)) :
          \A k \in 1..Len(pat) : text[s + k] = pat[k]

(* text LIKE "%pat%"; NULL LIKE anything is NULL, which WHERE rejects. *)
Like(text, pat) ==
    /\ text # NullText
    /\ \E s \in 0..(Len(text) - Len(pat)) :
          \A k \in 1..Len(pat) : Fold(text[s + k]) = Fold(pat[k])

(* SELECT id, question_text FROM questions WHERE question_text LIKE .. OR .. *)
SearchRows(d) ==
    LET Hit(r) == Like(r.question_text, Pattern1) \/ Like(r.question_text, Pattern2)
        rows == SelectSeq(d.questions, Hit)
    IN  [k \in 1..Len(rows) |-> <<rows[k].id, rows[k].question_text>>]

(* SELECT * FROM questions WHERE id = 1, then fetchone(): <<>> is None. *)
QuestionById(d, qid) ==
    LET Mine(r) == r.id = qid
        rows == SelectSeq(d.questions, Mine)
    IN  IF rows = <<>> THEN <<>> ELSE <<Head(rows)>>

(* the check mark if is_correct else a space *)
Marker(is_correct) ==
    IF is_correct # 0 THEN "check" ELSE " "

DbPath(s) ==
    CASE s = "check_db" -> "Testing.db"
      [] s = "debug_question" -> "Testing.db"
      [] s = "check_leadership_db" -> "EdLEAP-Leadership Questions.db"
      [] s = "search_question" -> "DB Files/EdLEAP-Leadership Questions.db"

(***************************************************************************)
(* Printed lines.                                                          *)
(***************************************************************************)
Label(s) ==
    [kind |-> "label", text |-> s]

Blank ==
    [kind |-> "blank"]

(* Variant: only the first fetched table is printed. *)
SchemaLinesFirstOnly(rows) ==
    IF rows = <<>> THEN <<>> ELSE <<[kind |-> "schema", sql |-> rows[1]], Blank>>

SchemaLines(rows) ==
    [k \in 1..(2 * Len(rows)) |->
        IF k % 2 = 1 THEN [kind |-> "schema", sql |-> rows[(k + 1) \div 2]] ELSE Blank]

ValueLines(knd, vals) ==
    [k \in 1..Len(vals) |-> [kind |-> knd, value |-> vals[k]]]

CountLines(rows) ==
    [k \in 1..Len(rows) |-> [kind |-> "count", qtype |-> rows[k][1], count |-> rows[k][2]]]

OptionLines(rows) ==
    [k \in 1..Len(rows) |-> [kind |-> "option", marker |-> Marker(rows[k][2]), text |-> rows[k][1]]]

PairLines(rows) ==
    [k \in 1..Len(rows) |-> [kind |-> "pair", left |-> rows[k][1], right |-> rows[k][2]]]

(***************************************************************************)
(* Initial state: a script is started on a bank.                           *)
(***************************************************************************)
Init ==
    /\ script \in Scripts
    /\ db \in Banks
    /\ pc = "start"
    /\ conn = "none"
    /\ out = <<>>
    /\ queries = <<>>
    /\ status = "running"
    /\ exc = "none"
    /\ tables = <<>>
    /\ types = <<>>
    /\ counts = <<>>
    /\ topics = <<>>
    /\ subtopics = <<>>
    /\ samples = <<>>
    /\ i = 0
    /\ question = <<>>
    /\ options = <<>>
    /\ matches = <<>>
    /\ questions = <<>>

(* An exception leaves the module body: traceback, exit code 1. *)
Raise(e) ==
    /\ status' = "error"
    /\ exc' = e
    /\ pc' = "done"

Goto(p) ==
    /\ pc' = p
    /\ UNCHANGED <<status, exc>>

Executed(q, a, err) ==
    queries' = Append(queries, [q |-> q, arg |-> a, result |-> err])

(***************************************************************************)
(* check_db.py and check_leadership_db.py: the report.                     *)
(***************************************************************************)
(* if os.path.exists(db_path): conn = sqlite3.connect(db_path) *)
ReportConnect ==
    /\ script \in ReportScripts
    /\ pc = "start"
    /\ db.exists
    /\ conn' = "open"
    /\ Goto("schema")
    /\ UNCHANGED <<script, db, out, queries, locals>>

(* Variant: the missing bank is reported and the script then exits with 1. *)
ReportNotFoundExitsNonZero ==
    /\ script \in ReportScripts
    /\ pc = "start"
    /\ ~db.exists
    /\ out' = Append(out, [kind |-> "not_found", path |-> DbPath(script)])
    /\ status' = "error"
    /\ pc' = "done"
    /\ UNCHANGED <<script, db, conn, queries, exc, locals>>

(* else: print(f"Database not found at: {db_path}") *)
ReportNotFound ==
    /\ script \in ReportScripts
    /\ pc = "start"
    /\ ~db.exists
    /\ out' = Append(out, [kind |-> "not_found", path |-> DbPath(script)])
    /\ status' = "ok"
    /\ pc' = "done"
    /\ UNCHANGED <<script, db, conn, queries, exc, locals>>

Schema ==
    /\ script \in ReportScripts
    /\ pc = "schema"
    /\ \E f \in Faults :
         LET err == QueryError(db, "schema", "sqlite_master", f) IN
         /\ Executed("schema", 0, err)
         /\ IF err = "ok"
            THEN /\ tables' = SchemaRows(db)
                 /\ out' = out \o <<Label("DATABASE SCHEMA")>> \o SchemaLines(SchemaRows(db))
                 /\ Goto("types")
            ELSE /\ out' = Append(out, Label("DATABASE SCHEMA"))
                 /\ Raise(ExcClass(err))
                 /\ UNCHANGED tables
    /\ UNCHANGED <<script, db, conn, types, counts, topics, subtopics, samples, i,
                   question, options, matches, questions>>

Types ==
    /\ script \in ReportScripts
    /\ pc = "types"
    /\ \E f \in Faults :
         LET err == QueryError(db, "types", "questions", f) IN
         /\ Executed("types", 0, err)
         /\ IF err = "ok"
            THEN /\ types' = Distinct(db, "question_type")
                 /\ out' = out \o <<Label("QUESTION TYPES")>>
                               \o ValueLines("type", Distinct(db, "question_type"))
                 /\ Goto("counts")
            ELSE /\ out' = Append(out, Label("QUESTION TYPES"))
                 /\ Raise(ExcClass(err))
                 /\ UNCHANGED types
    /\ UNCHANGED <<script, db, conn, tables, counts, topics, subtopics, samples, i,
                   question, options, matches, questions>>

Counts ==
    /\ script \in ReportScripts
    /\ pc = "counts"
    /\ \E f \in Faults :
         LET err == QueryError(db, "counts", "questions", f) IN
         /\ Executed("counts", 0, err)
         /\ IF err = "ok"
            THEN /\ counts' = GroupCount(db)
                 /\ out' = out \o <<Label("QUESTION COUNT BY TYPE")>> \o CountLines(GroupCount(db))
                 /\ Goto("topics")
            ELSE /\ out' = Append(out, Label("QUESTION COUNT BY TYPE"))
                 /\ Raise(ExcClass(err))
                 /\ UNCHANGED counts
    /\ UNCHANGED <<script, db, conn, tables, types, topics, subtopics, samples, i,
                   question, options, matches, questions>>

Topics ==
    /\ script \in ReportScripts
    /\ pc = "topics"
    /\ \E f \in Faults :
         LET err == QueryError(db, "topics", "questions", f) IN
         /\ Executed("topics", 0, err)
         /\ IF err = "ok"
            THEN /\ topics' = Distinct(db, "topic")
                 /\ out' = out \o <<Label("TOPICS")>> \o ValueLines("topic", Distinct(db, "topic"))
                 /\ Goto("subtopics")
            ELSE /\ out' = Append(out, Label("TOPICS"))
                 /\ Raise(ExcClass(err))
                 /\ UNCHANGED topics
    /\ UNCHANGED <<script, db, conn, tables, types, counts, subtopics, samples, i,
                   question, options, matches, questions>>

(* try: ... except sqlite3.OperationalError: print("No subtopic column found") *)
SubtopicsStep ==
    /\ script \in ReportScripts
    /\ pc = "subtopics"
    /\ \E f \in Faults :
         LET err == QueryError(db, "subtopics", "questions", f) IN
         /\ Executed("subtopics", 0, err)
         /\ IF err = "ok"
            THEN /\ subtopics' = Distinct(db, "subtopic")
                 /\ out' = out \o <<Label("SUBTOPICS")>>
                               \o ValueLines("subtopic", Distinct(db, "subtopic"))
                 /\ Goto("samples")
            ELSE IF ExcClass(err) = "OperationalError"
            THEN /\ out' = out \o <<Label("SUBTOPICS"),
                                    [kind |-> "note", text |-> "No subtopic column found"]>>
                 /\ Goto("samples")
                 /\ UNCHANGED subtopics
            ELSE /\ out' = Append(out, Label("SUBTOPICS"))
                 /\ Raise(ExcClass(err))
                 /\ UNCHANGED subtopics
    /\ UNCHANGED <<script, db, conn, tables, types, counts, topics, samples, i,
                   question, options, matches, questions>>

Samples ==
    /\ script \in ReportScripts
    /\ pc = "samples"
    /\ \E f \in Faults :
         LET err == QueryError(db, "samples", "questions", f) IN
         /\ Executed("samples", 0, err)
         /\ out' = Append(out, Label("SAMPLE QUESTIONS"))
         /\ IF err = "ok"
            THEN /\ samples' = SampleRows(db)
                 /\ i' = 1
                 /\ Goto("sample_line")
            ELSE /\ Raise(ExcClass(err))
                 /\ UNCHANGED <<samples, i>>
    /\ UNCHANGED <<script, db, conn, tables, types, counts, topics, subtopics,
                   question, options, matches, questions>>

(* for qid, qtype, qtext in samples: print(f"ID {qid} ({qtype}): {qtext[:100]}...") *)
SampleLine ==
    /\ script \in ReportScripts
    /\ pc = "sample_line"
    /\ IF i > Len(samples)
       THEN /\ Goto("close")
            /\ UNCHANGED <<out, i>>
       ELSE IF samples[i][3] = NullText
       THEN /\ Raise("TypeError")
            /\ UNCHANGED <<out, i>>
       ELSE /\ out' = Append(out, [kind |-> "sample", id |-> samples[i][1],
                                   qtype |-> samples[i][2],
                                   preview |-> Preview(samples[i][3]), suffix |-> "..."])
            /\ IF script = "check_db"
               THEN i' = i + 1 /\ Goto("sample_line")
               ELSE i' = i /\ Goto("sample_options")
    /\ UNCHANGED <<script, db, conn, queries, tables, types, counts, topics, subtopics,
                   samples, question, options, matches, questions>>

SampleOptions ==
    /\ script = "check_leadership_db"
    /\ pc = "sample_options"
    /\ \E f \in Faults :
         LET err == QueryError(db, "options", "options", f)
             rows == OptionsFor(db, samples[i][1])
         IN
         /\ Executed("options", samples[i][1], err)
         /\ IF err = "ok"
            THEN /\ options' = rows
                 /\ out' = IF rows # <<>>
                           THEN out \o <<[kind |-> "options_found", n |-> Len(rows)]>>
                                    \o OptionLines(rows)
                           ELSE out
                 /\ Goto("sample_matches")
            ELSE /\ Raise(ExcClass(err))
                 /\ UNCHANGED <<options, out>>
    /\ UNCHANGED <<script, db, conn, tables, types, counts, topics, subtopics, samples, i,
                   question, matches, questions>>

SampleMatches ==
    /\ script = "check_leadership_db"
    /\ pc = "sample_matches"
    /\ \E f \in Faults :
         LET err == QueryError(db, "match_pairs", "match_pairs", f)
             rows == MatchPairsFor(db, samples[i][1])
         IN
         /\ Executed("match_pairs", samples[i][1], err)
         /\ IF err = "ok"
            THEN /\ matches' = rows
                 /\ out' = (IF rows # <<>>
                            THEN out \o <<[kind |-> "pairs_found", n |-> Len(rows)]>>
                                     \o PairLines(rows)
                            ELSE out) \o <<Blank>>
                 /\ i' = i + 1
                 /\ Goto("sample_line")
            ELSE /\ Raise(ExcClass(err))
                 /\ UNCHANGED <<matches, out, i>>
    /\ UNCHANGED <<script, db, conn, tables, types, counts, topics, subtopics, samples,
                   question, options, questions>>

(* conn.close(), the last statement of every script *)
Close ==
    /\ pc = "close"
    /\ conn' = "closed"
    /\ status' = "ok"
    /\ pc' = "done"
    /\ UNCHANGED <<script, db, out, queries, exc, locals>>

(***************************************************************************)
(* debug_question.py and search_question.py connect without a check.       *)
(* sqlite3.connect on a missing file creates an empty database file, or    *)
(* raises OperationalError when the directory cannot hold it.              *)
(***************************************************************************)
ConnectNoCheck(next) ==
    /\ pc = "start"
    /\ \/ /\ conn' = "open"
          /\ db' = [db EXCEPT !.exists = TRUE]
          /\ Goto(next)
       \/ /\ ~db.exists
          /\ Raise("OperationalError")
          /\ UNCHANGED <<conn, db>>
    /\ UNCHANGED <<script, out, queries, locals>>

DebugConnect ==
    /\ script = "debug_question"
    /\ ConnectNoCheck("dq_question")

Columns(d) ==
    IF d.hasSubtopic
    THEN <<"id", "question_type", "topic", "subtopic", "question_text">>
    ELSE <<"id", "question_type", "topic", "question_text">>

(* q_dict = dict(zip(columns, question)) *)
Zip(cols, row) ==
    [k \in 1..Len(cols) |-> <<cols[k], row[cols[k]]>>]

DebugQuestion ==
    /\ script = "debug_question"
    /\ pc = "dq_question"
    /\ \E f \in Faults :
         LET err == QueryError(db, "question", "questions", f)
             row == QuestionById(db, DebugQuestionId)
         IN
         /\ Executed("question", DebugQuestionId, err)
         /\ IF err # "ok"
            THEN /\ out' = Append(out, Label("FIRST QUESTION DATA"))
                 /\ Raise(ExcClass(err))
                 /\ UNCHANGED question
            ELSE IF row = <<>>
            THEN /\ out' = Append(out, Label("FIRST QUESTION DATA"))
                 /\ question' = row
                 /\ Raise("TypeError")
            ELSE /\ out' = out \o <<Label("FIRST QUESTION DATA"),
                                    [kind |-> "q_dict", items |-> Zip(Columns(db), row[1])]>>
                 /\ question' = row
                 /\ Goto("dq_options")
    /\ UNCHANGED <<script, db, conn, tables, types, counts, topics, subtopics, samples, i,
                   options, matches, questions>>

DebugOptions ==
    /\ script = "debug_question"
    /\ pc = "dq_options"
    /\ \E f \in Faults :
         LET err == QueryError(db, "options", "options", f)
             rows == OptionsFor(db, DebugQuestionId)
         IN
         /\ Executed("options", DebugQuestionId, err)
         /\ IF err = "ok"
            THEN /\ options' = rows
                 /\ out' = out \o <<Label("OPTIONS FOR QUESTION 1"),
                                    [kind |-> "options_list", rows |-> rows]>>
                 /\ Goto("dq_matches")
            ELSE /\ out' = Append(out, Label("OPTIONS FOR QUESTION 1"))
                 /\ Raise(ExcClass(err))
                 /\ UNCHANGED options
    /\ UNCHANGED <<script, db, conn, tables, types, counts, topics, subtopics, samples, i,
                   question, matches, questions>>

DebugMatches ==
    /\ script = "debug_question"
    /\ pc = "dq_matches"
    /\ \E f \in Faults :
         LET err == QueryError(db, "match_pairs", "match_pairs", f)
             rows == MatchPairsFor(db, DebugQuestionId)
         IN
         /\ Executed("match_pairs", DebugQuestionId, err)
         /\ IF err = "ok"
            THEN /\ matches' = rows
                 /\ out' = out \o <<Label("MATCH PAIRS FOR QUESTION 1"),
                                    [kind |-> "pairs_list", rows |-> rows]>>
                 /\ Goto("close")
            ELSE /\ out' = Append(out, Label("MATCH PAIRS FOR QUESTION 1"))
                 /\ Raise(ExcClass(err))
                 /\ UNCHANGED matches
    /\ UNCHANGED <<script, db, conn, tables, types, counts, topics, subtopics, samples, i,
                   question, options, questions>>

SearchConnect ==
    /\ script = "search_question"
    /\ ConnectNoCheck("sq_search")

SearchQuery ==
    /\ script = "search_question"
    /\ pc = "sq_search"
    /\ \E f \in Faults :
         LET err == QueryError(db, "search", "questions", f) IN
         /\ Executed("search", 0, err)
         /\ IF err = "ok"
            THEN /\ questions' = SearchRows(db)
                 /\ i' = 1
                 /\ Goto("sq_line")
            ELSE /\ Raise(ExcClass(err))
                 /\ UNCHANGED <<questions, i>>
    /\ UNCHANGED <<script, db, conn, out, tables, types, counts, topics, subtopics, samples,
                   question, options, matches>>

(* for qid, qtext in questions: print(f'ID {qid}: {qtext}') *)
SearchLine ==
    /\ script = "search_question"
    /\ pc = "sq_line"
    /\ IF i > Len(questions)
       THEN /\ Goto("close")
            /\ UNCHANGED out
       ELSE /\ out' = Append(out, [kind |-> "match", id |-> questions[i][1],
                                   text |-> questions[i][2]])
            /\ Goto("sq_options")
    /\ UNCHANGED <<script, db, conn, queries, locals>>

SearchOptions ==
    /\ script = "search_question"
    /\ pc = "sq_options"
    /\ \E f \in Faults :
         LET err == QueryError(db, "options", "options", f)
             rows == OptionsFor(db, questions[i][1])
         IN
         /\ Executed("options", questions[i][1], err)
         /\ IF err = "ok"
            THEN /\ options' = rows
                 /\ out' = out \o OptionLines(rows) \o <<Blank>>
                 /\ i' = i + 1
                 /\ Goto("sq_line")
            ELSE /\ Raise(ExcClass(err))
                 /\ UNCHANGED <<options, out, i>>
    /\ UNCHANGED <<script, db, conn, tables, types, counts, topics, subtopics, samples,
                   question, matches, questions>>

Next ==
    \/ ReportConnect
    \/ ReportNotFound
    \/ Schema
    \/ Types
    \/ Counts
    \/ Topics
    \/ SubtopicsStep
    \/ Samples
    \/ SampleLine
    \/ SampleOptions
    \/ SampleMatches
    \/ Close
    \/ DebugConnect
    \/ DebugQuestion
    \/ DebugOptions
    \/ DebugMatches
    \/ SearchConnect
    \/ SearchQuery
    \/ SearchLine
    \/ SearchOptions

Spec ==
    Init /\ [][Next]_vars

(***************************************************************************)
(* Vocabulary of the properties.                                           *)
(***************************************************************************)
Succeeded(q) ==
    \E k \in 1..Len(queries) : queries[k].q = q /\ queries[k].result = "ok"

Issued(q) ==
    \E k \in 1..Len(queries) : queries[k].q = q

OfKind(knd) ==
    LET Is(l) == l.kind = knd IN SelectSeq(out, Is)

NotePrinted ==
    OfKind("note") # <<>>

Labels ==
    [k \in 1..Len(OfKind("label")) |-> OfKind("label")[k].text]

RECURSIVE Sum(_)
Sum(s) ==
    IF s = <<>> THEN 0 ELSE Head(s) + Sum(Tail(s))

(***************************************************************************)
(* C1: in check_db.py and check_leadership_db.py, when the bank path does  *)
(* not exist the run opens no connection, issues no query, prints no       *)
(* report section, prints exactly the note "Database not found at: <path>" *)
(* and ends normally (exit code 0).                                        *)
(***************************************************************************)
C1_NotFoundReportedCleanly ==
    (script \in ReportScripts /\ ~db.exists) =>
        /\ conn = "none"
        /\ queries = <<>>
        /\ OfKind("label") = <<>>
        /\ status # "error"
        /\ exc = "none"
        /\ pc \in {"start", "done"}
        /\ pc = "start" => out = <<>>
        /\ pc = "done" =>
              /\ out = << [kind |-> "not_found", path |-> DbPath(script)] >>
              /\ status = "ok"

C1_Witness ==
    /\ script \in ReportScripts
    /\ ~db.exists
    /\ pc = "done"
    /\ Len(out) = 1

(***************************************************************************)
(* C2: for each of the four scripts and every initial bank, including a    *)
(* path that does not exist, the bank is unchanged by the run: no step     *)
(* writes to it and a source that did not exist is never created.          *)
(***************************************************************************)
C2_BankNeverChanged ==
    [][db' = db]_vars

(***************************************************************************)
(* C3: in every script a connection that was opened is closed before the   *)
(* run ends, on every exit path: no terminal state has the connection      *)
(* opened and never closed.                                                *)
(***************************************************************************)
C3_ClosedOnEveryExit ==
    pc = "done" => conn \in {"none", "closed"}

(***************************************************************************)
(* C5: a run recovers only from a source not found at open time and from   *)
(* the subtopic column being absent.  Any other failure of any query is    *)
(* never reported as "No subtopic column found", stops the run at that     *)
(* query and ends it in a fatal outcome.                                   *)
(***************************************************************************)
C5_OnlyTwoRecoverable ==
    \A k \in 1..Len(queries) :
        (queries[k].result # "ok"
            /\ ~(queries[k].q = "subtopics" /\ queries[k].result = "no such column")) =>
            /\ k = Len(queries)
            /\ pc = "done"
            /\ status = "error"
            /\ ~NotePrinted

(***************************************************************************)
(* C6: the per-type counts sum exactly to the number of question rows;     *)
(* every question is counted in exactly one group, NULL types included;    *)
(* every reported count is at least 1; the types that have a count are     *)
(* the distinct types listed in the QUESTION TYPES section.                *)
(***************************************************************************)
C6_CountsPartitionQuestions ==
    (script \in ReportScripts /\ Succeeded("counts")) =>
        /\ Sum([k \in 1..Len(counts) |-> counts[k][2]]) = Len(db.questions)
        /\ \A k \in 1..Len(counts) : counts[k][2] >= 1
        /\ \A r \in 1..Len(db.questions) :
              Cardinality({k \in 1..Len(counts) :
                              counts[k][1] = db.questions[r].question_type}) = 1
        /\ {counts[k][1] : k \in 1..Len(counts)} = Range(types)
        /\ {counts[k][1] : k \in 1..Len(counts)}
              = {OfKind("type")[k].value : k \in 1..Len(OfKind("type"))}
        /\ OfKind("count") = [k \in 1..Len(counts) |->
              [kind |-> "count", qtype |-> counts[k][1], count |-> counts[k][2]]]

C6_Witness ==
    /\ script \in ReportScripts
    /\ Succeeded("counts")
    /\ Len(counts) >= 2
    /\ \E k \in 1..Len(counts) : counts[k][1] = None /\ counts[k][2] >= 2

(***************************************************************************)
(* C7: the SAMPLE QUESTIONS section lists exactly min(3, N) questions,     *)
(* the first ones in the bank's row order, each previewed by the prefix of *)
(* its text of at most 100 characters; this holds for every row, also one  *)
(* whose question_text is NULL, without the run failing.                   *)
(***************************************************************************)
C7_SamplesForEveryRow ==
    (script \in ReportScripts /\ Succeeded("samples")) =>
        /\ Len(samples) = Min(SampleLimit, Len(db.questions))
        /\ \A k \in 1..Len(samples) :
              samples[k] = <<db.questions[k].id, db.questions[k].question_type,
                             db.questions[k].question_text>>
        /\ Len(OfKind("sample")) <= Len(samples)
        /\ \A k \in 1..Len(OfKind("sample")) :
              LET l == OfKind("sample")[k]
                  t == db.questions[k].question_text
              IN  /\ l.id = db.questions[k].id
                  /\ Len(l.preview) = (IF t = NullText THEN 0 ELSE Min(Len(t), PreviewCap))
                  /\ \A c \in 1..Len(l.preview) : l.preview[c] = t[c]
        /\ exc # "TypeError"
        /\ status = "ok" => Len(OfKind("sample")) = Len(samples)

(***************************************************************************)
(* Child rows of a question, stated from the tables.                       *)
(***************************************************************************)
OptionsOf(q) ==
    {o \in db.options : o.question_id = q}

PairIndexes(q) ==
    {j \in 1..Len(db.match_pairs) : db.match_pairs[j].question_id = q}

(* rows are the options of q, each once, in ascending option id *)
IsOptionsOf(rows, q) ==
    /\ Len(rows) = Cardinality(OptionsOf(q))
    /\ \A k \in 1..Len(rows) :
          \E o \in OptionsOf(q) :
             /\ rows[k] = <<o.option_text, o.is_correct>>
             /\ Cardinality({p \in OptionsOf(q) : p.id < o.id}) = k - 1

(* rows are the match pairs of q, each once, in row order *)
IsPairsOf(rows, q) ==
    /\ Len(rows) = Cardinality(PairIndexes(q))
    /\ \A k \in 1..Len(rows) :
          \E j \in PairIndexes(q) :
             /\ rows[k] = <<db.match_pairs[j].left_text, db.match_pairs[j].right_text>>
             /\ Cardinality({m \in PairIndexes(q) : m < j}) = k - 1

IsOptionLinesOf(lines, q) ==
    /\ Len(lines) = Cardinality(OptionsOf(q))
    /\ \A k \in 1..Len(lines) :
          \E o \in OptionsOf(q) :
             /\ lines[k].text = o.option_text
             /\ (lines[k].marker = "check") <=> (o.is_correct = 1)
             /\ Cardinality({p \in OptionsOf(q) : p.id < o.id}) = k - 1

IsPairLinesOf(lines, q) ==
    IsPairsOf([k \in 1..Len(lines) |-> <<lines[k].left, lines[k].right>>], q)

Positions(knd) ==
    {k \in 1..Len(out) : out[k].kind = knd}

(* the lines printed after line k and before the next line of the same kind *)
Segment(k) ==
    LET later == {m \in Positions(out[k].kind) : m > k}
        stop == IF later = {} THEN Len(out) + 1
                ELSE CHOOSE m \in later : \A n \in later : m <= n
    IN  SubSeq(out, k + 1, stop - 1)

Only(seg, knd) ==
    LET Is(l) == l.kind = knd IN SelectSeq(seg, Is)

LastQuery ==
    queries[Len(queries)]

(* The lines under one sampled question of check_leadership_db.py. *)
SampleSegmentOk(k) ==
    LET q == out[k].id
        seg == Segment(k)
        opts == Only(seg, "option")
        prs == Only(seg, "pair")
        closed == Only(seg, "blank") # <<>>
    IN  /\ opts # <<>> \/ closed => IsOptionLinesOf(opts, q)
        /\ prs # <<>> \/ closed => IsPairLinesOf(prs, q)
        /\ Only(seg, "options_found")
              = (IF opts = <<>> THEN <<>> ELSE <<[kind |-> "options_found", n |-> Len(opts)]>>)
        /\ Only(seg, "pairs_found")
              = (IF prs = <<>> THEN <<>> ELSE <<[kind |-> "pairs_found", n |-> Len(prs)]>>)
        /\ seg = Only(seg, "options_found") \o opts \o Only(seg, "pairs_found") \o prs
                    \o Only(seg, "blank")
        /\ Len(Only(seg, "blank")) <= 1

C8_Loaded ==
    /\ (queries # <<>> /\ LastQuery.q = "options" /\ LastQuery.result = "ok") =>
            IsOptionsOf(options, LastQuery.arg)
    /\ (queries # <<>> /\ LastQuery.q = "match_pairs" /\ LastQuery.result = "ok") =>
            IsPairsOf(matches, LastQuery.arg)
    /\ script = "check_leadership_db" =>
          /\ \A k \in Positions("sample") : SampleSegmentOk(k)
          /\ Succeeded("samples") =>
                /\ i = 1 + Cardinality({b \in Positions("blank") :
                                            \E m \in Positions("sample") : m < b})
                /\ status = "ok" => Cardinality(Positions("sample")) = Len(samples)
    /\ script = "debug_question" =>
          /\ \A k \in Positions("options_list") : IsOptionsOf(out[k].rows, DebugQuestionId)
          /\ \A k \in Positions("pairs_list") : IsPairsOf(out[k].rows, DebugQuestionId)

(***************************************************************************)
(* C8, as amended: for every question id the options loaded are exactly    *)
(* the options of that id in ascending option id, and the match pairs      *)
(* loaded are exactly the match pairs of that id; a question without       *)
(* options or match pairs gives the empty sequence and no error.  In       *)
(* check_leadership_db.py nothing is printed for an empty child kind and   *)
(* the run goes on to the next sampled question; debug_question.py prints  *)
(* its section label and the list, empty or not.  No child row of another  *)
(* question is shown under a question.                                     *)
(***************************************************************************)
C8_ChildRowsOfTheQuestion ==
    /\ C8_Loaded
    /\ (script = "debug_question" /\ Succeeded("options")) =>
          /\ Cardinality(Positions("options_list")) = 1
          /\ "OPTIONS FOR QUESTION 1" \in Range(Labels)
    /\ (script = "debug_question" /\ Succeeded("match_pairs")) =>
          /\ Cardinality(Positions("pairs_list")) = 1
          /\ "MATCH PAIRS FOR QUESTION 1" \in Range(Labels)

C8_Witness ==
    /\ script = "check_leadership_db"
    /\ status = "ok"
    /\ Len(samples) = 3
    /\ OptionsOf(samples[1][1]) = {}
    /\ PairIndexes(samples[1][1]) = {}
    /\ Cardinality(OptionsOf(samples[2][1])) >= 2
    /\ Cardinality(PairIndexes(samples[2][1])) >= 1

(***************************************************************************)
(* C8, as claimed: the same, with nothing printed for a child kind that    *)
(* is empty, in every script that loads child rows.                        *)
(***************************************************************************)
C8_NothingPrintedWhenEmpty ==
    /\ C8_Loaded
    /\ \A k \in Positions("options_list") : out[k].rows # <<>>
    /\ \A k \in Positions("pairs_list") : out[k].rows # <<>>

(***************************************************************************)
(* C4: when questions has no subtopic column the distinct-subtopic query   *)
(* ends in the field-not-found condition: the report prints "No subtopic   *)
(* column found" and no subtopic value, then still prints the SAMPLE       *)
(* QUESTIONS section and closes the connection.  When the column exists    *)
(* the note is not printed and every distinct subtopic is listed once.     *)
(***************************************************************************)
C4_SubtopicAbsenceRecovered ==
    (script \in ReportScripts /\ Issued("subtopics")) =>
        /\ (~db.hasSubtopic /\ \E k \in 1..Len(queries) :
                queries[k].q = "subtopics" /\ queries[k].result = "no such column") =>
              /\ NotePrinted
              /\ OfKind("subtopic") = <<>>
              /\ pc = "done" =>
                    /\ "SAMPLE QUESTIONS" \in Range(Labels)
                    /\ conn = "closed"
        /\ db.hasSubtopic =>
              /\ ~NotePrinted
              /\ Succeeded("subtopics") =>
                    /\ {OfKind("subtopic")[k].value : k \in 1..Len(OfKind("subtopic"))}
                          = {db.questions[r].subtopic : r \in 1..Len(db.questions)}
                    /\ \A k, m \in 1..Len(OfKind("subtopic")) :
                          OfKind("subtopic")[k].value = OfKind("subtopic")[m].value => k = m

(***************************************************************************)
(* C9: the search returns exactly the questions whose text matches one of  *)
(* the patterns, as (id, text) pairs.  When nothing matches the result is  *)
(* empty, no option query is issued, nothing is printed and the run ends   *)
(* normally with the connection closed.  The options of each match are     *)
(* loaded after the match is printed and before the next match is          *)
(* printed, in ascending option id.                                        *)
(***************************************************************************)
Matching ==
    {r \in 1..Len(db.questions) :
        \/ Like(db.questions[r].question_text, Pattern1)
        \/ Like(db.questions[r].question_text, Pattern2)}

OptionQueries ==
    LET Is(e) == e.q = "options" IN SelectSeq(queries, Is)

C9_SearchThenOptions ==
    (script = "search_question" /\ Succeeded("search")) =>
        LET M == Matching
            printed == OfKind("match")
        IN
        /\ Len(questions) = Cardinality(M)
        /\ \A k \in 1..Len(questions) :
              \E r \in M :
                 /\ questions[k] = <<db.questions[r].id, db.questions[r].question_text>>
                 /\ Cardinality({m \in M : m < r}) = k - 1
        /\ \A r \in 1..Len(db.questions) :
              LET t == db.questions[r].question_text
                  found == \E k \in 1..Len(questions) : questions[k][1] = db.questions[r].id
              IN  /\ t \in {TextPLC, TextStrengthens} => found
                  /\ t \in {NullText, TextLeadership, TextAtCap, TextLong} => ~found
        /\ questions = <<>> =>
              /\ ~Issued("options")
              /\ out = <<>>
              /\ status # "error"
              /\ pc \in {"sq_line", "close", "done"}
              /\ pc = "done" => (status = "ok" /\ conn = "closed")
        /\ printed = [k \in 1..Len(printed) |->
              [kind |-> "match", id |-> questions[k][1], text |-> questions[k][2]]]
        /\ Len(OptionQueries) \in {Len(printed), Len(printed) - 1}
        /\ \A k \in 1..Len(OptionQueries) : OptionQueries[k].arg = questions[k][1]
        /\ \A k \in Positions("match") :
              \/ Segment(k) = Only(Segment(k), "option") \o <<Blank>>
                    /\ IsOptionLinesOf(Only(Segment(k), "option"), out[k].id)
              \/ Segment(k) = <<>>
                    /\ k = Len(out)
                    /\ (pc = "sq_options" \/ LastQuery.result # "ok")
        /\ status = "ok" =>
              /\ Len(printed) = Len(questions)
              /\ conn = "closed"

C9_Witness ==
    /\ script = "search_question"
    /\ status = "ok"
    /\ Len(questions) >= 2
    /\ \E k \in 1..Len(questions) : Cardinality(OptionsOf(questions[k][1])) >= 2
    /\ \E r \in 1..Len(db.questions) : db.questions[r].question_text = TextLeadership

(***************************************************************************)
(* C10: a report on an existing bank that ends normally prints each        *)
(* section label once, in the order DATABASE SCHEMA, QUESTION TYPES,       *)
(* QUESTION COUNT BY TYPE, TOPICS, SUBTOPICS, SAMPLE QUESTIONS; under      *)
(* SAMPLE QUESTIONS each question's options and then its match pairs come  *)
(* after that question's line and before the next question's line; the     *)
(* schema section holds one definition per table, so it is not empty when  *)
(* the bank has a table.                                                   *)
(***************************************************************************)
SectionLabels ==
    <<"DATABASE SCHEMA", "QUESTION TYPES", "QUESTION COUNT BY TYPE", "TOPICS",
      "SUBTOPICS", "SAMPLE QUESTIONS">>

SectionKinds ==
    << {"schema", "blank"}, {"type"}, {"count"}, {"topic"}, {"subtopic", "note"},
       {"sample", "options_found", "option", "pairs_found", "pair", "blank"} >>

====
